---- MODULE Spec2Model ----
(***************************************************************************)
(* A model of CanvasSaver.py, the one-shot exporter of a Canvas course.    *)
(*                                                                         *)
(* Text is modelled character by character: a Python str is a sequence of  *)
(* one-character strings, so that replace, split, startswith and isdigit   *)
(* are computed the way CPython computes them.                             *)
(*                                                                         *)
(* Four specifications share the module:                                   *)
(*   SpecFetch   canvas_request against one paginated endpoint             *)
(*   SpecEmbed   fix_youtube_embeds on a parsed HTML fragment              *)
(*   SpecLink    get_file_info_from_link on one href                       *)
(*   SpecExport  main: the five exporters in their fixed order             *)
(***************************************************************************)
EXTENDS Integers, Sequences, FiniteSets, TLC

VARIABLES
  \* canvas_request
  server, call_params, url, params, results, requests_log, ret, fpc,
  \* fix_youtube_embeds
  html_body, html_fixed, epc,
  \* get_file_info_from_link
  href, file_id, lpc,
  \* main and the exporters
  pc, course_size, modules_list, module_idx, items, item_idx,
  combined_pages_html, item_log, file_links, link_idx, listing, rec_idx,
  fs, dirs, last_response

fetchVars  == <<server, call_params, url, params, results, requests_log, ret, fpc>>
embedVars  == <<html_body, html_fixed, epc>>
linkVars   == <<href, file_id, lpc>>
exportVars == <<pc, course_size, modules_list, module_idx, items, item_idx,
                combined_pages_html, item_log, file_links, link_idx, listing,
                rec_idx, fs, dirs, last_response>>
vars == <<fetchVars, embedVars, linkVars, exportVars>>

\* what each specification leaves alone
otherThanFetch  == <<embedVars, linkVars, exportVars>>
otherThanEmbed  == <<fetchVars, linkVars, exportVars>>
otherThanLink   == <<fetchVars, embedVars, exportVars>>
otherThanExport == <<fetchVars, embedVars, linkVars>>

\* Python's None, and an attribute or field that is absent: one-token
\* sequences, which no text (a sequence of characters) equals.
NoneVal == <<"None">>
Absent  == <<"Absent">>

(***************************************************************************)
(* Bounds of the model.                                                    *)
(***************************************************************************)
MaxPages      == 3   \* URLs of the simulated listing endpoint
MaxBodyLen    == 2   \* records in one page of a listing
MaxIframes    == 1   \* iframe elements in one HTML fragment
MaxSrcChunks  == 2   \* pieces a src suffix is assembled from
MaxHrefChunks == 3   \* pieces an href is assembled from
MaxRecords    == 3   \* records the whole course holds, over all listings

(***************************************************************************)
(* str operations, as CPython defines them.                                *)
(***************************************************************************)
\* s[i:i+len(sub)] == sub
MatchAt(s, sub, i) ==
  /\ i + Len(sub) - 1 <= Len(s)
  /\ \A k \in 1..Len(sub) : s[i + k - 1] = sub[k]

\* s.startswith(p)
StartsWith(s, p) == MatchAt(s, p, 1)

\* sub in s
Contains(s, sub) == \E i \in 1..(Len(s) - Len(sub) + 1) : MatchAt(s, sub, i)

\* s[n:]
DropFirst(s, n) == SubSeq(s, n + 1, Len(s))

\* s.replace(old, new): leftmost non-overlapping occurrences, old non-empty
RECURSIVE ReplaceFrom(_, _, _, _)
ReplaceFrom(s, old, new, i) ==
  IF i > Len(s) THEN <<>>
  ELSE IF MatchAt(s, old, i) THEN new \o ReplaceFrom(s, old, new, i + Len(old))
  ELSE <<s[i]>> \o ReplaceFrom(s, old, new, i + 1)

Replace(s, old, new) == ReplaceFrom(s, old, new, 1)

\* s.split(sep, maxsplit): the list of parts; maxsplit < 0 means no limit
RECURSIVE SplitFrom(_, _, _, _, _)
SplitFrom(s, sep, i, cur, left) ==
  IF i > Len(s) THEN <<cur>>
  ELSE IF left # 0 /\ MatchAt(s, sep, i)
       THEN <<cur>> \o SplitFrom(s, sep, i + Len(sep), <<>>, left - 1)
  ELSE SplitFrom(s, sep, i + 1, Append(cur, s[i]), left)

Split(s, sep) == SplitFrom(s, sep, 1, <<>>, -1)

SplitMax(s, sep, maxsplit) == SplitFrom(s, sep, 1, <<>>, maxsplit)

\* the concatenation of a list of strings
RECURSIVE Concat(_)
Concat(ss) == IF ss = <<>> THEN <<>> ELSE Head(ss) \o Concat(Tail(ss))

\* every list of at most n elements of S
RECURSIVE SeqsUpTo(_, _)
SeqsUpTo(S, n) ==
  IF n = 0 THEN {<<>>}
  ELSE LET shorter == SeqsUpTo(S, n - 1)
       IN  shorter \cup {Append(q, x) : q \in {r \in shorter : Len(r) = n - 1}, x \in S}

(***************************************************************************)
(* get_file_info_from_link                                                 *)
(***************************************************************************)
\* One character for which str.isdigit() holds and str.isdecimal() does not
\* (U+00B2 SUPERSCRIPT TWO), written as one token.
SuperscriptTwo == "U+00B2"

DecimalDigits == {"0", "1", "2", "3", "4", "5", "6", "7", "8", "9"}

\* The characters str.isdigit() accepts: Numeric_Type Decimal or Digit.
IsDigitChar(c) == c \in DecimalDigits \cup {SuperscriptTwo}

\* s.isdigit(): non-empty and every character a digit
IsDigit(s) == Len(s) > 0 /\ \A k \in 1..Len(s) : IsDigitChar(s[k])

FilesSep == <<"/", "f", "i", "l", "e", "s", "/">>

get_file_info_from_link(h) ==
  LET parts == Split(h, FilesSep)
  IN  IF Len(parts) < 2 THEN NoneVal
      ELSE LET right_side      == parts[2]
               non_digit_split == SplitMax(SplitMax(right_side, <<"/">>, 1)[1], <<"?">>, 1)[1]
           IN  IF IsDigit(non_digit_split) THEN non_digit_split ELSE NoneVal

HrefChunks == {FilesSep, <<"/">>, <<"?">>, <<"6">>, <<"7">>, <<"a">>, <<SuperscriptTwo>>}

HrefInputs == {Concat(cs) : cs \in SeqsUpTo(HrefChunks, MaxHrefChunks)}

LinkIdle == href = <<>> /\ file_id = NoneVal /\ lpc = "idle"

LinkInit == href \in HrefInputs /\ file_id = NoneVal /\ lpc = "call"

GetFileInfo ==
  /\ lpc = "call"
  /\ file_id' = get_file_info_from_link(href)
  /\ lpc' = "returned"
  /\ UNCHANGED href
  /\ UNCHANGED otherThanLink

(***************************************************************************)
(* fix_youtube_embeds.  A parsed fragment is the list of its iframe src    *)
(* attributes and the list of its anchor href attributes, each a string or *)
(* Absent; the rest of the markup is not touched by the code.              *)
(***************************************************************************)
EmbedMarker == <<"e", "m", "b", "e", "d", "/">>
SlashEmbed  == <<"/", "e", "m", "b", "e", "d", "/">>
HostEmbed   == <<"/", "w", "w", "w", ".", "y", "o", "u", "t", "u", "b", "e", ".", "c", "o", "m", "/", "e", "m", "b", "e", "d">>
HttpsScheme == <<"h", "t", "t", "p", "s", ":", "/", "/">>
HttpsHost   == <<"h", "t", "t", "p", "s", ":", "/", "/", "w", "w", "w", ".", "y", "o", "u", "t", "u", "b", "e", ".", "c", "o", "m">>
Canonical   == <<"h", "t", "t", "p", "s", ":", "/", "/", "w", "w", "w", ".", "y", "o", "u", "t", "u", "b", "e", ".", "c", "o", "m", "/", "e", "m", "b", "e", "d", "/">>
Http        == <<"h", "t", "t", "p">>

\* temp = old_src.replace('embed/', '/embed/')
InsertSlash(old_src) == Replace(old_src, EmbedMarker, SlashEmbed)

\* while temp.startswith('//'): temp = temp[1:]
RECURSIVE DropDoubleSlash(_)
DropDoubleSlash(temp) ==
  IF StartsWith(temp, <<"/", "/">>) THEN DropDoubleSlash(DropFirst(temp, 1)) ELSE temp

StripLeadingSlashes(temp) == DropDoubleSlash(temp)

\* if temp.startswith('/www.youtube.com/embed') ... elif temp.startswith('/embed/')
PrefixHost(temp) ==
  IF StartsWith(temp, HostEmbed) THEN HttpsScheme \o DropFirst(temp, 1)
  ELSE IF StartsWith(temp, SlashEmbed) THEN HttpsHost \o temp
  ELSE temp

SplitFallbackSkipped(temp) == temp

\* if not temp.startswith('http'): split on '/embed/', rebuild when two parts
SplitFallback(temp) ==
  IF ~StartsWith(temp, Http)
  THEN LET embed_parts == Split(temp, SlashEmbed)
       IN  IF Len(embed_parts) = 2 THEN Canonical \o embed_parts[2] ELSE temp
  ELSE temp

\* the new src of one iframe whose src contains 'embed/'
NormalizeSrc(old_src) ==
  SplitFallback(PrefixHost(StripLeadingSlashes(InsertSlash(old_src))))

\* one iteration of the loop over iframes: iframe.get('src', '') ... iframe['src'] = temp
FixIframe(attr) ==
  LET old_src == IF attr = Absent THEN <<>> ELSE attr
  IN  IF Contains(old_src, EmbedMarker) THEN NormalizeSrc(old_src) ELSE attr

fix_youtube_embeds(html) ==
  [html EXCEPT !.iframes = [i \in DOMAIN html.iframes |-> FixIframe(html.iframes[i])]]

SrcPrefixes ==
  { <<>>, EmbedMarker, SlashEmbed, <<"/">> \o HostEmbed \o <<"/">>,
    Canonical, DropFirst(HostEmbed, 1) \o <<"/">> }

SrcChunks == {<<"x">>, <<"/">>, EmbedMarker}

SrcInputs ==
  {p \o Concat(cs) : p \in SrcPrefixes, cs \in SeqsUpTo(SrcChunks, MaxSrcChunks)}

EmbedIdle ==
  /\ html_body = [iframes |-> <<>>, anchors |-> <<>>, text |-> <<>>]
  /\ html_fixed = html_body
  /\ epc = "idle"

EmbedInit ==
  /\ html_body \in {[iframes |-> fr, anchors |-> <<>>, text |-> <<>>] :
                      fr \in SeqsUpTo(SrcInputs \cup {Absent}, MaxIframes)}
  /\ html_fixed = [iframes |-> <<>>, anchors |-> <<>>, text |-> <<>>]
  /\ epc = "call"

FixYoutubeEmbeds ==
  /\ epc = "call"
  /\ html_fixed' = fix_youtube_embeds(html_body)
  /\ epc' = "returned"
  /\ UNCHANGED html_body
  /\ UNCHANGED otherThanEmbed

(***************************************************************************)
(* canvas_request.  The endpoint is a set of URLs, numbered in the order   *)
(* the client first meets them (1 is urljoin(CANVAS_BASE_URL, endpoint)).  *)
(* server[u] is the response of URL u: an HTTP status, a decoded body (a   *)
(* list of records or one object) and the 'next' link of its Link header.  *)
(* A response is drawn when its URL is first requested and is replayed     *)
(* when a link leads back to it.                                           *)
(***************************************************************************)
StatusOk        == 200
StatusForbidden == 403
StatusNotFound  == 404
StatusServerErr == 500

ErrorStatuses == {StatusForbidden, StatusNotFound, StatusServerErr}

EmptyParams == <<"{}">>
SomeParams  == <<"per_page=50">>

\* links.get('next', {}).get('url') when the response has no next link
NoLink == 0

\* the requests one call may issue in the model
MaxRequests == MaxPages + 2

ListBody(u, n) == [kind |-> "list", value |-> [j \in 1..n |-> <<u, j>>]]
ObjectBody(u)  == [kind |-> "object", value |-> <<<<u, 0>>>>]

\* what URL u may answer when first requested; known is the number of URLs
\* met so far, so a next link is absent, leads back, or leads to a new URL
Responses(u, known) ==
  LET nexts == {NoLink} \cup (1..(IF known < MaxPages THEN known + 1 ELSE known))
  IN  {[status |-> StatusOk, body |-> b, next |-> n] :
         b \in {ListBody(u, k) : k \in 0..MaxBodyLen} \cup {ObjectBody(u)},
         n \in nexts}
      \cup {[status |-> s, body |-> ListBody(u, 0), next |-> NoLink] :
              s \in {StatusNotFound, StatusServerErr}}

\* isinstance(data, list) fails: the single object is returned at once
ReturnsAtOnceNever(data) == FALSE

ReturnsAtOnce(data) == data.kind # "list"

\* params = None after a page has been accumulated
FollowUpParams(p) == NoneVal

\* results.extend(data)
ExtendReversed(acc, data) == data.value \o acc

Extend(acc, data) == acc \o data.value

FetchIdle ==
  /\ server = <<>>
  /\ call_params = NoneVal
  /\ url = NoLink
  /\ params = NoneVal
  /\ results = <<>>
  /\ requests_log = <<>>
  /\ ret = [kind |-> "none", value |-> <<>>]
  /\ fpc = "idle"

\* the state on entry to the while loop
FetchInit ==
  /\ server = <<>>
  /\ call_params \in {NoneVal, SomeParams}
  /\ params = (IF call_params = NoneVal THEN EmptyParams ELSE call_params)
  /\ url = 1
  /\ results = <<>>
  /\ requests_log = <<>>
  /\ ret = [kind |-> "none", value |-> <<>>]
  /\ fpc = "loop"

\* one iteration of 'while url:' with the response resp
Iterate(resp) ==
  /\ requests_log' = Append(requests_log, [url |-> url, params |-> params])
  /\ server' = (IF url > Len(server) THEN Append(server, resp) ELSE server)
  /\ IF resp.status # StatusOk
     THEN \* response.raise_for_status()
          /\ ret' = [kind |-> "error", value |-> <<resp.status>>]
          /\ fpc' = "raised"
          /\ UNCHANGED <<results, params, url>>
     ELSE IF ReturnsAtOnce(resp.body)
     THEN /\ ret' = resp.body
          /\ fpc' = "returned"
          /\ UNCHANGED <<results, params, url>>
     ELSE /\ results' = Extend(results, resp.body)
          /\ params' = FollowUpParams(params)
          /\ url' = resp.next
          /\ UNCHANGED <<ret, fpc>>

Request ==
  /\ fpc = "loop"
  /\ url # NoLink
  /\ Len(requests_log) < MaxRequests
  /\ \E resp \in (IF url > Len(server) THEN Responses(url, Len(server) + 1)
                  ELSE {server[url]}) : Iterate(resp)
  /\ UNCHANGED call_params
  /\ UNCHANGED otherThanFetch

\* the loop ends on a response without a next link: return results
ReturnResults ==
  /\ fpc = "loop"
  /\ url = NoLink
  /\ ret' = [kind |-> "list", value |-> results]
  /\ fpc' = "returned"
  /\ UNCHANGED <<server, call_params, url, params, results, requests_log>>
  /\ UNCHANGED otherThanFetch

(***************************************************************************)
(* sanitize_filename                                                       *)
(***************************************************************************)
ForbiddenChars == {"\\", "/", "*", "?", ":", "\"", "<", ">", "|"}

sanitize_filename(name) ==
  [i \in DOMAIN name |-> IF name[i] \in ForbiddenChars THEN "_" ELSE name[i]]

(***************************************************************************)
(* The course the export walks.  The server's answers are drawn when the   *)
(* request is made; course_size is the number of records the course still  *)
(* holds, so the listings of one export return MaxRecords records at most. *)
(***************************************************************************)
Titles == {<<"a", "/", "b">>, <<"a", ":", "b">>, <<"a", "b">>}

ItemTypes == {"File", "Page", "ExternalUrl", "ExternalTool", "SubHeader"}

DotHtml        == <<".", "h", "t", "m", "l">>
CombinedSuffix == <<"_", "c", "o", "m", "b", "i", "n", "e", "d", "_", "p", "a", "g", "e", "s", ".", "h", "t", "m", "l">>
FrontSuffix    == <<"_", "f", "r", "o", "n", "t", "p", "a", "g", "e", ".", "h", "t", "m", "l">>
Untitled       == <<"U", "n", "t", "i", "t", "l", "e", "d">>
UntitledPage   == <<"U", "n", "t", "i", "t", "l", "e", "d", " ", "P", "a", "g", "e">>
HomePage       == <<"H", "o", "m", "e", "P", "a", "g", "e">>

RootDir        == <<"DOWNLOAD_DIR">>
AllPagesDir    == <<"all_pages">>
AssignmentsDir == <<"assignments">>
AllFilesDir    == <<"all_files">>

EmptyHtml == [iframes |-> <<>>, anchors |-> <<>>, text |-> <<>>]

\* a page body with one embedded video and anchors, two of them file links
LinkedHtml(id) ==
  [iframes |-> <<<<"/", "/">> \o DropFirst(HostEmbed, 1) \o <<"/", "x">>>>,
   anchors |-> <<<<"/", "c", "o", "u", "r", "s", "e", "s", "/", "1", "/", "f", "i", "l", "e", "s", "/", "6", "/", "d", "o", "w", "n", "l", "o", "a", "d">>, Absent, <<"/", "f", "i", "l", "e", "s", "/", "a">>, <<"/", "x">>>>,
   text    |-> id]

PlainHtml(id) == [iframes |-> <<>>, anchors |-> <<>>, text |-> id]

\* a record without a body field, and page_data when no page was fetched
NoBody == [iframes |-> <<>>, anchors |-> <<>>, text |-> Absent]
NoData == [title |-> Absent, body |-> NoBody]

\* dict.get(key, default)
Get(field, default) == IF field = Absent THEN default ELSE field

\* dict.get("body", "")
GetBody(body) == IF body = NoBody THEN EmptyHtml ELSE body

\* the listings whose k-th record is one of choices[k]
Listings(choices) ==
  {q \in [DOMAIN choices -> UNION {choices[k] : k \in DOMAIN choices}] :
     \A k \in DOMAIN choices : q[k] \in choices[k]}

ModuleRecs(k) == {[id |-> <<ToString(k)>>, name |-> nm] : nm \in {<<"a", "/", "b">>}}

ItemRecs(m, k) ==
  {[type |-> t, title |-> <<"m">> \o m \o <<"i", ToString(k)>>] : t \in ItemTypes}

PageRecs(k) ==
  {[url |-> Absent, title |-> Absent]}
  \cup {[url |-> <<"slug", ToString(k)>>, title |-> t] : t \in Titles \cup {Absent}}

AssignmentRecs(k) ==
  {[id |-> <<ToString(k)>>, name |-> nm, description |-> <<"desc", ToString(k)>>] :
     nm \in Titles \cup {Absent}}

FileRecs(k) == {[id |-> <<ToString(k)>>, filename |-> <<"file", ToString(k)>>]}

\* the page a slug resolves to
PageData(slug) ==
  { [title |-> Absent, body |-> NoBody],
    [title |-> <<"page">> \o slug, body |-> PlainHtml(slug)],
    [title |-> <<"page">> \o slug, body |-> LinkedHtml(slug)] }

(***************************************************************************)
(* extract_file_links_from_html                                            *)
(***************************************************************************)
HasFilesSegment(h) == h # Absent /\ Contains(h, FilesSep)

extract_file_links_from_html(html) == SelectSeq(html.anchors, HasFilesSegment)

(***************************************************************************)
(* Output: fs maps a path <<directory, file name>> to what was last        *)
(* written there; dirs are the directories made.                           *)
(***************************************************************************)
Doc(kind, title, body) == [kind |-> kind, title |-> title, body |-> body]

Fragment(kind, h2, html, link) ==
  [kind |-> kind, h2 |-> h2, html |-> html, link |-> link]

WriteFile(files, path, doc) == (path :> doc) @@ files

Resp(site, status, caught) == [site |-> site, status |-> status, caught |-> caught]

\* the except clauses: the statuses each call site recovers from
ModulePageCatches(status)   == status = StatusNotFound
EmbeddedFileCatches(status) == TRUE
PagesListingCatches(status) == status = StatusNotFound
PageSlugCatches(status)     == status = StatusNotFound
FrontPageCatchesNotFoundOnly(status) == status = StatusNotFound
FrontPageCatches(status)    == TRUE
FilesListingCatches(status) == status = StatusForbidden
FileMetaCatches(status)     == status = StatusNotFound

ExportIdle ==
  /\ pc = "idle"
  /\ course_size = 0
  /\ modules_list = <<>>
  /\ module_idx = 0
  /\ items = <<>>
  /\ item_idx = 0
  /\ combined_pages_html = <<>>
  /\ item_log = <<>>
  /\ file_links = <<>>
  /\ link_idx = 0
  /\ listing = <<>>
  /\ rec_idx = 0
  /\ fs = <<>>
  /\ dirs = {}
  /\ last_response = Resp("none", StatusOk, FALSE)

ExportInit ==
  /\ pc = "start"
  /\ course_size = MaxRecords
  /\ modules_list = <<>>
  /\ module_idx = 0
  /\ items = <<>>
  /\ item_idx = 0
  /\ combined_pages_html = <<>>
  /\ item_log = <<>>
  /\ file_links = <<>>
  /\ link_idx = 0
  /\ listing = <<>>
  /\ rec_idx = 0
  /\ fs = <<>>
  /\ dirs = {}
  /\ last_response = Resp("none", StatusOk, FALSE)

moduleVars == <<modules_list, module_idx, items, item_idx, combined_pages_html,
                item_log, file_links, link_idx>>

\* an HTTPError no except clause takes: it leaves main
Raise(site, status) ==
  /\ pc' = "aborted"
  /\ last_response' = Resp(site, status, FALSE)

\* the same, nothing else changing
RaiseOnly(site, status) ==
  /\ Raise(site, status)
  /\ UNCHANGED <<course_size, moduleVars, listing, rec_idx, fs, dirs>>

ModuleDir(module) ==
  sanitize_filename(module.id \o <<"_">> \o module.name)

CombinedPath(module) ==
  <<ModuleDir(module), ModuleDir(module) \o CombinedSuffix>>

\* combined_pages_html = [] at the start of each module
FreshBufferKept(previous) == previous

FreshBuffer(previous) == <<>>

\* the metadata the server holds for file id
FileInfo(id) == [url |-> <<"download">> \o id, filename |-> <<"file">> \o id]

\* os.makedirs(DOWNLOAD_DIR, exist_ok=True)
MakeDownloadDir ==
  /\ pc = "start"
  /\ dirs' = dirs \cup {RootDir}
  /\ pc' = "get_modules"
  /\ UNCHANGED <<course_size, moduleVars, listing, rec_idx, fs, last_response>>
  /\ UNCHANGED otherThanExport

\* modules = get_course_modules(COURSE_ID) and the branch of main on it
GetCourseModules ==
  /\ pc = "get_modules"
  /\ \/ \E s \in ErrorStatuses : RaiseOnly("modules_list", s)
     \/ \* a single object, or an empty list: "No modules found."
        /\ pc' = "get_pages"
        /\ last_response' = Resp("modules_list", StatusOk, FALSE)
        /\ UNCHANGED <<course_size, moduleVars, listing, rec_idx, fs, dirs>>
     \/ \E n \in 1..course_size :
          \E mods \in Listings([k \in 1..n |-> ModuleRecs(k)]) :
            /\ modules_list' = mods
            /\ module_idx' = 1
            /\ course_size' = course_size - n
            /\ pc' = "modules"
            /\ last_response' = Resp("modules_list", StatusOk, FALSE)
            /\ UNCHANGED <<items, item_idx, combined_pages_html, item_log,
                           file_links, link_idx, listing, rec_idx, fs, dirs>>
  /\ UNCHANGED otherThanExport

\* the head of 'for module in modules_list': makedirs, get_module_items
StartModule ==
  /\ pc = "modules"
  /\ module_idx <= Len(modules_list)
  /\ LET module == modules_list[module_idx]
     IN  /\ dirs' = dirs \cup {ModuleDir(module)}
         /\ \/ \E s \in ErrorStatuses :
                 /\ Raise("module_items", s)
                 /\ UNCHANGED <<course_size, moduleVars, listing, rec_idx, fs>>
            \/ \E n \in 0..course_size :
                 \E its \in Listings([k \in 1..n |-> ItemRecs(module.id, k)]) :
                   /\ items' = its
                   /\ item_idx' = 1
                   /\ combined_pages_html' = FreshBuffer(combined_pages_html)
                   /\ item_log' = <<>>
                   /\ course_size' = course_size - n
                   /\ pc' = "items"
                   /\ last_response' = Resp("module_items", StatusOk, FALSE)
                   /\ UNCHANGED <<modules_list, module_idx, file_links, link_idx,
                                  listing, rec_idx, fs>>
  /\ UNCHANGED otherThanExport

AtItem(type) ==
  /\ pc = "items"
  /\ item_idx <= Len(items)
  /\ items[item_idx].type = type

LogEntry(status, data) == [status |-> status, data |-> data]

\* the item is done: on to the next one
NextItem(entry) ==
  /\ item_log' = Append(item_log, entry)
  /\ item_idx' = item_idx + 1
  /\ pc' = "items"

\* item_type == "File": file metadata by id, then download_file
ProcessFileItem ==
  /\ AtItem("File")
  /\ LET module    == modules_list[module_idx]
         file_info == FileInfo(items[item_idx].title)
     IN  \/ \E s \in ErrorStatuses : RaiseOnly("module_file", s)
         \/ \E s \in ErrorStatuses : RaiseOnly("module_file_download", s)
         \/ /\ fs' = WriteFile(fs, <<ModuleDir(module), file_info.filename>>,
                               Doc("file", file_info.filename, file_info.url))
            /\ NextItem(LogEntry(StatusOk, NoData))
            /\ last_response' = Resp("module_file_download", StatusOk, FALSE)
            /\ UNCHANGED <<course_size, modules_list, module_idx, items,
                           combined_pages_html, file_links, link_idx, listing,
                           rec_idx, dirs>>
  /\ UNCHANGED otherThanExport

\* item_type == "Page": the page by its slug, its fragment, its file links
ProcessPageItem ==
  /\ AtItem("Page")
  /\ LET slug == <<"slug">> \o items[item_idx].title
     IN  \/ \E s \in ErrorStatuses :
               IF ModulePageCatches(s)
               THEN /\ NextItem(LogEntry(s, NoData))
                    /\ last_response' = Resp("module_page", s, TRUE)
                    /\ UNCHANGED <<course_size, modules_list, module_idx, items,
                                   combined_pages_html, file_links, link_idx,
                                   listing, rec_idx, fs, dirs>>
               ELSE RaiseOnly("module_page", s)
         \/ \E page_data \in PageData(slug) :
              LET page_html       == GetBody(page_data.body)
                  page_title      == Get(page_data.title, Untitled)
                  page_html_fixed == fix_youtube_embeds(page_html)
                  links           == extract_file_links_from_html(page_html_fixed)
              IN  /\ combined_pages_html' =
                       Append(combined_pages_html,
                              Fragment("page", page_title, page_html_fixed, <<>>))
                  /\ item_log' = Append(item_log, LogEntry(StatusOk, page_data))
                  /\ last_response' = Resp("module_page", StatusOk, FALSE)
                  /\ IF links = <<>>
                     THEN /\ item_idx' = item_idx + 1
                          /\ pc' = "items"
                          /\ UNCHANGED <<file_links, link_idx>>
                     ELSE /\ file_links' = links
                          /\ link_idx' = 1
                          /\ pc' = "links"
                          /\ UNCHANGED item_idx
                  /\ UNCHANGED <<course_size, modules_list, module_idx, items,
                                 listing, rec_idx, fs, dirs>>
  /\ UNCHANGED otherThanExport

\* after one href of file_links: the next href, or the next item
NextLink ==
  IF link_idx = Len(file_links)
  THEN /\ file_links' = <<>>
       /\ link_idx' = 0
       /\ item_idx' = item_idx + 1
       /\ pc' = "items"
  ELSE /\ link_idx' = link_idx + 1
       /\ UNCHANGED <<file_links, item_idx, pc>>

\* one iteration of 'for href in file_links'
ProcessLink ==
  /\ pc = "links"
  /\ LET module           == modules_list[module_idx]
         embedded_file_id == get_file_info_from_link(file_links[link_idx])
         file_info        == FileInfo(embedded_file_id)
     IN  /\ NextLink
         /\ \/ /\ embedded_file_id = NoneVal
               /\ UNCHANGED <<fs, last_response>>
            \/ /\ embedded_file_id # NoneVal
               /\ \E s \in ErrorStatuses, site \in {"embedded_file", "embedded_download"} :
                    /\ EmbeddedFileCatches(s)
                    /\ last_response' = Resp(site, s, TRUE)
                    /\ UNCHANGED fs
            \/ /\ embedded_file_id # NoneVal
               /\ fs' = WriteFile(fs, <<ModuleDir(module), file_info.filename>>,
                                  Doc("file", file_info.filename, file_info.url))
               /\ last_response' = Resp("embedded_download", StatusOk, FALSE)
  /\ UNCHANGED <<course_size, modules_list, module_idx, items,
                 combined_pages_html, item_log, listing, rec_idx, dirs>>
  /\ UNCHANGED otherThanExport

\* item_type == "ExternalUrl"
ProcessExternalUrl ==
  /\ AtItem("ExternalUrl")
  /\ combined_pages_html' =
       Append(combined_pages_html,
              Fragment("url", items[item_idx].title, EmptyHtml,
                       <<"external_url">> \o items[item_idx].title))
  /\ NextItem(LogEntry(StatusOk, NoData))
  /\ UNCHANGED <<course_size, modules_list, module_idx, items, file_links,
                 link_idx, listing, rec_idx, fs, dirs, last_response>>
  /\ UNCHANGED otherThanExport

\* item_type == "ExternalTool"
ProcessExternalTool ==
  /\ AtItem("ExternalTool")
  /\ combined_pages_html' =
       Append(combined_pages_html,
              Fragment("tool", items[item_idx].title, EmptyHtml, <<>>))
  /\ NextItem(LogEntry(StatusOk, NoData))
  /\ UNCHANGED <<course_size, modules_list, module_idx, items, file_links,
                 link_idx, listing, rec_idx, fs, dirs, last_response>>
  /\ UNCHANGED otherThanExport

\* any other item type: "[Unhandled]"
ProcessUnhandledItem ==
  /\ pc = "items"
  /\ item_idx <= Len(items)
  /\ items[item_idx].type \notin {"File", "Page", "ExternalUrl", "ExternalTool"}
  /\ NextItem(LogEntry(StatusOk, NoData))
  /\ UNCHANGED <<course_size, modules_list, module_idx, items,
                 combined_pages_html, file_links, link_idx, listing, rec_idx,
                 fs, dirs, last_response>>
  /\ UNCHANGED otherThanExport

\* after the items: 'if combined_pages_html:' write the combined document
FinishModule ==
  /\ pc = "items"
  /\ item_idx > Len(items)
  /\ LET module == modules_list[module_idx]
     IN  fs' = IF combined_pages_html # <<>>
               THEN WriteFile(fs, CombinedPath(module),
                              Doc("combined", ModuleDir(module), combined_pages_html))
               ELSE fs
  /\ module_idx' = module_idx + 1
  /\ pc' = "modules"
  /\ UNCHANGED <<course_size, modules_list, items, item_idx,
                 combined_pages_html, item_log, file_links, link_idx, listing,
                 rec_idx, dirs, last_response>>
  /\ UNCHANGED otherThanExport

\* download_modules returns: its locals are gone
ModulesReturn ==
  /\ pc = "modules"
  /\ module_idx > Len(modules_list)
  /\ modules_list' = <<>>
  /\ module_idx' = 0
  /\ items' = <<>>
  /\ item_idx' = 0
  /\ combined_pages_html' = <<>>
  /\ item_log' = <<>>
  /\ pc' = "get_pages"
  /\ UNCHANGED <<course_size, file_links, link_idx, listing, rec_idx, fs, dirs,
                 last_response>>
  /\ UNCHANGED otherThanExport

\* the part of a listing exporter's state the module export owns
listVars == <<listing, rec_idx, item_log>>

moduleOnly == <<modules_list, module_idx, items, item_idx, combined_pages_html,
                file_links, link_idx>>

\* a listing of n >= 1 records starts the loop at next, an empty one skips to after
StartLoop(recs, dir, next, after) ==
  IF recs = <<>>
  THEN /\ pc' = after
       /\ UNCHANGED <<listing, rec_idx, item_log, dirs>>
  ELSE /\ listing' = recs
       /\ rec_idx' = 1
       /\ item_log' = <<>>
       /\ dirs' = dirs \cup {dir}
       /\ pc' = next

\* the loop is over and the exporter returns
EndLoop(at, after) ==
  /\ pc = at
  /\ rec_idx > Len(listing)
  /\ listing' = <<>>
  /\ rec_idx' = 0
  /\ item_log' = <<>>
  /\ pc' = after
  /\ UNCHANGED <<course_size, moduleOnly, fs, dirs, last_response>>

\* the record is done: on to the next one
NextRecord(entry) ==
  /\ item_log' = Append(item_log, entry)
  /\ rec_idx' = rec_idx + 1
  /\ UNCHANGED <<pc, listing>>

\* the listing an endpoint answers with: a list, or one object the caller wraps
ListingAnswers(choices) ==
  UNION {Listings(SubSeq(choices, 1, n)) : n \in 0..course_size}

PagePath(page_title) == <<AllPagesDir, page_title \o DotHtml>>

\* pages_list = safe_get_all_pages(COURSE_ID); download_all_pages up to its loop
SafeGetAllPages ==
  /\ pc = "get_pages"
  /\ \/ \E s \in ErrorStatuses :
          IF PagesListingCatches(s)
          THEN /\ StartLoop(<<>>, AllPagesDir, "pages", "get_assignments")
               /\ last_response' = Resp("pages_list", s, TRUE)
               /\ UNCHANGED <<course_size, moduleOnly, fs>>
          ELSE RaiseOnly("pages_list", s)
     \/ \E recs \in ListingAnswers([k \in 1..course_size |-> PageRecs(k)]) :
          /\ StartLoop(recs, AllPagesDir, "pages", "get_assignments")
          /\ course_size' = course_size - Len(recs)
          /\ last_response' = Resp("pages_list", StatusOk, FALSE)
          /\ UNCHANGED <<moduleOnly, fs>>
  /\ UNCHANGED otherThanExport

\* one iteration of 'for p in pages_list'
DownloadPage ==
  /\ pc = "pages"
  /\ rec_idx <= Len(listing)
  /\ LET p          == listing[rec_idx]
         page_title == sanitize_filename(Get(p.title, UntitledPage))
     IN  \/ /\ p.url = Absent
            /\ NextRecord(LogEntry(StatusOk, NoData))
            /\ UNCHANGED <<course_size, moduleOnly, fs, dirs, last_response>>
         \/ /\ p.url # Absent
            /\ \E s \in ErrorStatuses :
                 IF PageSlugCatches(s)
                 THEN /\ NextRecord(LogEntry(s, NoData))
                      /\ last_response' = Resp("page_slug", s, TRUE)
                      /\ UNCHANGED <<course_size, moduleOnly, fs, dirs>>
                 ELSE RaiseOnly("page_slug", s)
         \/ /\ p.url # Absent
            /\ \E page_data \in PageData(p.url) :
                 LET page_html_fixed ==
                       fix_youtube_embeds(GetBody(page_data.body))
                 IN  /\ fs' = WriteFile(fs, PagePath(page_title),
                                        Doc("page", page_title, page_html_fixed))
                     /\ NextRecord(LogEntry(StatusOk, page_data))
                     /\ last_response' = Resp("page_slug", StatusOk, FALSE)
                     /\ UNCHANGED <<course_size, moduleOnly, dirs>>
  /\ UNCHANGED otherThanExport

PagesReturn == EndLoop("pages", "get_assignments") /\ UNCHANGED otherThanExport

AssignmentPathById(a) ==
  <<AssignmentsDir,
    sanitize_filename(Get(a.name, Untitled)) \o <<"_">> \o a.id \o DotHtml>>

\* path = os.path.join(assignments_dir, f"{title}.html")
AssignmentPath(a) ==
  <<AssignmentsDir, sanitize_filename(Get(a.name, Untitled)) \o DotHtml>>

\* assignments_list = get_assignments(COURSE_ID); download_assignments up to its loop
GetAssignments ==
  /\ pc = "get_assignments"
  /\ \/ \E s \in ErrorStatuses : RaiseOnly("assignments_list", s)
     \/ \E recs \in ListingAnswers([k \in 1..course_size |-> AssignmentRecs(k)]) :
          /\ StartLoop(recs, AssignmentsDir, "assignments", "get_front_page")
          /\ course_size' = course_size - Len(recs)
          /\ last_response' = Resp("assignments_list", StatusOk, FALSE)
          /\ UNCHANGED <<moduleOnly, fs>>
  /\ UNCHANGED otherThanExport

\* one iteration of 'for a in assignments_list'
DownloadAssignment ==
  /\ pc = "assignments"
  /\ rec_idx <= Len(listing)
  /\ LET a     == listing[rec_idx]
         title == sanitize_filename(Get(a.name, Untitled))
     IN  fs' = WriteFile(fs, AssignmentPath(a), Doc("assignment", title, a.description))
  /\ NextRecord(LogEntry(StatusOk, NoData))
  /\ UNCHANGED <<course_size, moduleOnly, dirs, last_response>>
  /\ UNCHANGED otherThanExport

AssignmentsReturn == EndLoop("assignments", "get_front_page") /\ UNCHANGED otherThanExport

\* front_page_data = get_front_page(COURSE_ID); save_front_page
GetFrontPage ==
  /\ pc = "get_front_page"
  /\ \/ \E s \in ErrorStatuses :
          IF FrontPageCatches(s)
          THEN /\ pc' = "get_files"
               /\ last_response' = Resp("front_page", s, TRUE)
               /\ UNCHANGED <<course_size, moduleOnly, listVars, fs, dirs>>
          ELSE RaiseOnly("front_page", s)
     \/ \E t \in {Absent, <<"H", "/">>}, b \in {NoBody, PlainHtml(<<"home">>)} :
          LET front_title == sanitize_filename(Get(t, HomePage))
          IN  /\ fs' = WriteFile(fs, <<RootDir, front_title \o FrontSuffix>>,
                                 Doc("front", front_title, GetBody(b)))
              /\ pc' = "get_files"
              /\ last_response' = Resp("front_page", StatusOk, FALSE)
              /\ UNCHANGED <<course_size, moduleOnly, listVars, dirs>>
  /\ UNCHANGED otherThanExport

\* files_list = get_all_files(COURSE_ID); download_all_files up to its loop
GetAllFiles ==
  /\ pc = "get_files"
  /\ \/ \E s \in ErrorStatuses :
          IF FilesListingCatches(s)
          THEN /\ StartLoop(<<>>, AllFilesDir, "files", "done")
               /\ last_response' = Resp("files_list", s, TRUE)
               /\ UNCHANGED <<course_size, moduleOnly, fs>>
          ELSE RaiseOnly("files_list", s)
     \/ \E recs \in ListingAnswers([k \in 1..course_size |-> FileRecs(k)]) :
          /\ StartLoop(recs, AllFilesDir, "files", "done")
          /\ course_size' = course_size - Len(recs)
          /\ last_response' = Resp("files_list", StatusOk, FALSE)
          /\ UNCHANGED <<moduleOnly, fs>>
  /\ UNCHANGED otherThanExport

\* one iteration of 'for fdata in files_list'
DownloadCourseFile ==
  /\ pc = "files"
  /\ rec_idx <= Len(listing)
  /\ LET fdata     == listing[rec_idx]
         file_json == FileInfo(fdata.id)
     IN  \/ \E s \in ErrorStatuses :
               IF FileMetaCatches(s)
               THEN /\ NextRecord(LogEntry(s, NoData))
                    /\ last_response' = Resp("file_meta", s, TRUE)
                    /\ UNCHANGED <<course_size, moduleOnly, fs, dirs>>
               ELSE RaiseOnly("file_meta", s)
         \/ \E s \in ErrorStatuses : RaiseOnly("file_download", s)
         \/ /\ fs' = WriteFile(fs, <<AllFilesDir, fdata.filename>>,
                               Doc("file", fdata.filename, file_json.url))
            /\ NextRecord(LogEntry(StatusOk, NoData))
            /\ last_response' = Resp("file_download", StatusOk, FALSE)
            /\ UNCHANGED <<course_size, moduleOnly, dirs>>
  /\ UNCHANGED otherThanExport

FilesReturn == EndLoop("files", "done") /\ UNCHANGED otherThanExport

(***************************************************************************)
(* The specifications.                                                     *)
(***************************************************************************)
InitFetch == FetchInit /\ EmbedIdle /\ LinkIdle /\ ExportIdle

FetchNext ==
  \/ Request
  \/ ReturnResults

SpecFetch == InitFetch /\ [][FetchNext]_vars

InitEmbed == EmbedInit /\ FetchIdle /\ LinkIdle /\ ExportIdle

EmbedNext == FixYoutubeEmbeds

SpecEmbed == InitEmbed /\ [][EmbedNext]_vars

InitLink == LinkInit /\ FetchIdle /\ EmbedIdle /\ ExportIdle

LinkNext == GetFileInfo

SpecLink == InitLink /\ [][LinkNext]_vars

InitExport == ExportInit /\ FetchIdle /\ EmbedIdle /\ LinkIdle

ExportNext ==
  \/ MakeDownloadDir
  \/ GetCourseModules
  \/ StartModule
  \/ ProcessFileItem
  \/ ProcessPageItem
  \/ ProcessLink
  \/ ProcessExternalUrl
  \/ ProcessExternalTool
  \/ ProcessUnhandledItem
  \/ FinishModule
  \/ ModulesReturn
  \/ SafeGetAllPages
  \/ DownloadPage
  \/ PagesReturn
  \/ GetAssignments
  \/ DownloadAssignment
  \/ AssignmentsReturn
  \/ GetFrontPage
  \/ GetAllFiles
  \/ DownloadCourseFile
  \/ FilesReturn

SpecExport == InitExport /\ [][ExportNext]_vars

(***************************************************************************)
(* The claims.                                                             *)
(***************************************************************************)

\* the pages served so far are lists, each linking to the next, the last to none
IsChain ==
  /\ server # <<>>
  /\ \A u \in 1..Len(server) :
       /\ server[u].status = StatusOk
       /\ server[u].body.kind = "list"
       /\ server[u].next = (IF u < Len(server) THEN u + 1 ELSE NoLink)

\* the same with the last page still linking on, to a page not yet requested
IsChainPrefix ==
  \A u \in 1..Len(server) :
    /\ server[u].status = StatusOk
    /\ server[u].body.kind = "list"
    /\ server[u].next \in {u + 1} \cup (IF u = Len(server) THEN {NoLink} ELSE {})

AllRecords == Concat([u \in 1..Len(server) |-> server[u].body.value])

FirstParams == IF call_params = NoneVal THEN EmptyParams ELSE call_params

\* C1: against a finite chain of N list pages canvas_request issues exactly
\* N requests, ends, and returns the pages' records concatenated in page
\* order; the caller's params go with the first request only, every later
\* request goes to the previous response's next link with params None.
C1_PaginationAggregates ==
  /\ IsChainPrefix => (fpc \in {"loop", "returned"}
                       /\ Len(requests_log) = Len(server)
                       /\ (fpc = "returned" \/ ENABLED FetchNext))
  /\ (fpc = "returned" /\ IsChain) =>
       /\ ret = [kind |-> "list", value |-> AllRecords]
       /\ Len(requests_log) = Len(server)
       /\ requests_log[1] = [url |-> 1, params |-> FirstParams]
       /\ \A i \in 2..Len(requests_log) :
            requests_log[i] = [url |-> server[i - 1].next, params |-> NoneVal]

C1_ThreeFullPages ==
  /\ fpc = "returned"
  /\ IsChain
  /\ Len(server) = 3
  /\ \A u \in 1..3 : Len(server[u].body.value) = MaxBodyLen
  /\ call_params = SomeParams
  /\ Len(ret.value) = 3 * MaxBodyLen

FirstIsObject ==
  /\ server # <<>>
  /\ server[1].status = StatusOk
  /\ server[1].body.kind = "object"

\* C2: when the first response decodes to a single object, canvas_request
\* returns that object after exactly one request, next link or not.
C2_ObjectReturnedAtOnce ==
  FirstIsObject =>
    /\ fpc = "returned"
    /\ ret = server[1].body
    /\ Len(requests_log) = 1
    /\ ~ENABLED FetchNext

C2_ObjectWithNextLink ==
  /\ FirstIsObject
  /\ server[1].next # NoLink
  /\ fpc = "returned"

\* a suffix without '/' and without 'embed/'
PlainSuffix(s) == ~Contains(s, <<"/">>) /\ ~Contains(s, EmbedMarker)

\* C3: an iframe src that already is https://www.youtube.com/embed/<id> is
\* written back unchanged.
C3_CanonicalSrcUnchanged ==
  epc = "returned" =>
    \A i \in DOMAIN html_body.iframes :
      LET src == html_body.iframes[i]
      IN  (/\ src # Absent
           /\ StartsWith(src, Canonical)
           /\ PlainSuffix(DropFirst(src, Len(Canonical))))
          => html_fixed.iframes[i] = src

ProtocolRelative == <<"/">> \o HostEmbed \o <<"/">>

\* C8: for a suffix s without '/' and 'embed/', the sources 'embed/' + s and
\* '//www.youtube.com/embed/' + s are both rewritten to
\* 'https://www.youtube.com/embed/' + s.
C8_EmbedRewritten ==
  epc = "returned" =>
    \A i \in DOMAIN html_body.iframes : \A p \in {EmbedMarker, ProtocolRelative} :
      LET src == html_body.iframes[i]
      IN  (/\ src # Absent
           /\ StartsWith(src, p)
           /\ PlainSuffix(DropFirst(src, Len(p))))
          => html_fixed.iframes[i] = Canonical \o DropFirst(src, Len(p))

C8_ProtocolRelativeRewritten ==
  /\ epc = "returned"
  /\ \E i \in DOMAIN html_body.iframes :
       /\ html_body.iframes[i] = ProtocolRelative \o <<"x">>
       /\ html_fixed.iframes[i] = Canonical \o <<"x">>

\* the text of s before its first '/' or '?'
RECURSIVE Segment(_)
Segment(s) ==
  IF s = <<>> \/ Head(s) \in {"/", "?"} THEN <<>> ELSE <<Head(s)>> \o Segment(Tail(s))

FirstFiles(h) == CHOOSE i \in 1..Len(h) :
                   MatchAt(h, FilesSep, i) /\ \A j \in 1..(i - 1) : ~MatchAt(h, FilesSep, j)

\* the identifier the claim gives for href h
ClaimedFileId(h) ==
  IF ~Contains(h, FilesSep) THEN NoneVal
  ELSE LET seg == Segment(DropFirst(h, FirstFiles(h) + Len(FilesSep) - 1))
       IN  IF seg # <<>> /\ \A k \in 1..Len(seg) : seg[k] \in DecimalDigits
           THEN seg ELSE NoneVal

\* C7: get_file_info_from_link returns the text between the first '/files/'
\* and the next '/' or '?' exactly when that text is non-empty and all
\* decimal digits, and no reference otherwise.
C7_FileIdIsDecimalSegment ==
  lpc = "returned" => file_id = ClaimedFileId(href)

\* the sites where one specific page slug or one specific file is resolved
ItemSites == {"module_page", "module_file", "page_slug", "file_meta"}

\* C4: a 404 on one page slug or one file is caught where it occurs and
\* skips that item only, in module export (Page and File items), in the
\* pages export and in the files export.
C4_NotFoundItemSkipped ==
  (last_response.status = StatusNotFound /\ last_response.site \in ItemSites)
    => (last_response.caught /\ pc # "aborted")

\* the listing endpoints of the four standalone exporters
ListingSites == {"pages_list", "assignments_list", "front_page", "files_list"}

\* C5: each standalone exporter tolerates a 404 on its own listing endpoint:
\* no exception reaches the driver and the later exporters run.
C5_ListingNotFoundTolerated ==
  (last_response.status = StatusNotFound /\ last_response.site \in ListingSites)
    => (last_response.caught /\ pc # "aborted")

\* the benign errors as the claim lists them: 404 on a course-optional
\* feature, a page slug or a file, 403 on the files listing
ClaimedBenign(r) ==
  \/ r.status = StatusNotFound
  \/ r.status = StatusForbidden /\ r.site = "files_list"

\* C6 as stated: every other HTTP error status is recovered nowhere and
\* aborts the export.
C6_OtherStatusesFatal ==
  (last_response.status # StatusOk /\ ~ClaimedBenign(last_response))
    => pc = "aborted"

\* the errors an except clause of the code takes
Recovered(r) ==
  \/ r.site \in {"front_page", "embedded_file", "embedded_download"}
  \/ r.status = StatusNotFound
       /\ r.site \in {"pages_list", "module_page", "page_slug", "file_meta"}
  \/ r.status = StatusForbidden /\ r.site = "files_list"

\* C6 as amended: an HTTP error status aborts the export, and no later
\* exporter runs, unless it is 404 on the pages listing, a module page's
\* slug, a standalone page's slug or a standalone file's metadata, 403 on
\* the files listing, or any status on front_page or on an embedded file.
C6_UnrecoveredStatusesFatal ==
  /\ last_response.status # StatusOk =>
       /\ last_response.caught <=> Recovered(last_response)
       /\ last_response.caught <=> pc # "aborted"
  /\ pc = "aborted" => (last_response.status # StatusOk /\ ~ENABLED ExportNext)

C6_AbortedAfterModules ==
  /\ pc = "aborted"
  /\ last_response = Resp("pages_list", StatusServerErr, FALSE)
  /\ DOMAIN fs # {}

\* the fragments the items of one module give, from the items and what
\* their requests returned
ItemFragments(item, entry) ==
  CASE item.type = "Page" /\ entry.status = StatusOk ->
         <<Fragment("page", Get(entry.data.title, Untitled),
                    fix_youtube_embeds(GetBody(entry.data.body)), <<>>)>>
    [] item.type = "ExternalUrl" ->
         <<Fragment("url", item.title, EmptyHtml, <<"external_url">> \o item.title)>>
    [] item.type = "ExternalTool" ->
         <<Fragment("tool", item.title, EmptyHtml, <<>>)>>
    [] OTHER -> <<>>

ExpectedFragments ==
  Concat([i \in 1..Len(items) |-> ItemFragments(items[i], item_log[i])])

\* the module a fragment's heading comes from, when the heading names one
FragmentIsOf(f, module) ==
  CASE f.kind \in {"url", "tool"} -> f.h2[2] = module.id[1]
    [] f.kind = "page" /\ f.h2 # Untitled -> f.h2[4] = module.id[1]
    [] OTHER -> TRUE

\* C9: when a module's items are done, its combined document exists iff a
\* fetched Page, an ExternalUrl or an ExternalTool item gave a fragment, and
\* holds exactly those fragments in item order; nothing of another module
\* is in it; the module's directory exists either way.
C9_CombinedDocument ==
  (pc = "modules" /\ module_idx > 1) =>
    LET module == modules_list[module_idx - 1]
    IN  /\ Len(item_log) = Len(items)
        /\ ModuleDir(module) \in dirs
        /\ (CombinedPath(module) \in DOMAIN fs) <=> (ExpectedFragments # <<>>)
        /\ ExpectedFragments # <<>> =>
             fs[CombinedPath(module)] =
               Doc("combined", ModuleDir(module), ExpectedFragments)
        /\ \A path \in DOMAIN fs :
             (path[1] = ModuleDir(module) /\ fs[path].kind = "combined")
               => path = CombinedPath(module)
        /\ \A j \in 1..(module_idx - 1) :
             CombinedPath(modules_list[j]) \in DOMAIN fs =>
               \A k \in DOMAIN fs[CombinedPath(modules_list[j])].body :
                 FragmentIsOf(fs[CombinedPath(modules_list[j])].body[k], modules_list[j])

C9_SecondModuleWithoutDocument ==
  /\ pc = "modules"
  /\ module_idx = 3
  /\ CombinedPath(modules_list[1]) \in DOMAIN fs
  /\ CombinedPath(modules_list[2]) \notin DOMAIN fs
  /\ ModuleDir(modules_list[2]) \in dirs

FilesIn(dir) == {path \in DOMAIN fs : path[1] = dir}

AssignmentTitle(a) == sanitize_filename(Get(a.name, Untitled))
PageTitle(p)       == sanitize_filename(Get(p.title, UntitledPage))

\* the page records of the listing that were written
WrittenPages ==
  {k \in 1..Len(listing) : listing[k].url # Absent /\ item_log[k].status = StatusOk}

\* the last written record with the title of record k
LastOf(S, titles, k) ==
  CHOOSE j \in S : /\ titles[j] = titles[k]
                   /\ \A i \in S : titles[i] = titles[k] => i <= j

AssignmentTitles == [k \in 1..Len(listing) |-> AssignmentTitle(listing[k])]
PageTitles       == [k \in 1..Len(listing) |-> PageTitle(listing[k])]

\* C10: an output path depends on the sanitized title only: records of one
\* listing whose titles sanitize alike are written to one path, where the
\* later record replaces the earlier, so the directory holds fewer files
\* than records were written.
C10_CollidingTitlesOverwrite ==
  /\ (pc = "assignments" /\ rec_idx > Len(listing)) =>
       LET all == 1..Len(listing)
       IN  /\ \A k \in all :
                 LET last == listing[LastOf(all, AssignmentTitles, k)]
                 IN  /\ <<AssignmentsDir, AssignmentTitle(listing[k]) \o DotHtml>> \in DOMAIN fs
                     /\ fs[<<AssignmentsDir, AssignmentTitle(listing[k]) \o DotHtml>>] =
                          Doc("assignment", AssignmentTitle(last), last.description)
           /\ Cardinality(FilesIn(AssignmentsDir)) =
                Cardinality({AssignmentTitle(listing[k]) : k \in all})
           /\ (\E i, j \in all :
                 i < j /\ AssignmentTitle(listing[i]) = AssignmentTitle(listing[j]))
                => Cardinality(FilesIn(AssignmentsDir)) < Len(listing)
  /\ (pc = "pages" /\ rec_idx > Len(listing)) =>
       /\ \A k \in WrittenPages :
            LET last == LastOf(WrittenPages, PageTitles, k)
            IN  /\ <<AllPagesDir, PageTitle(listing[k]) \o DotHtml>> \in DOMAIN fs
                /\ fs[<<AllPagesDir, PageTitle(listing[k]) \o DotHtml>>] =
                     Doc("page", PageTitle(listing[last]),
                         fix_youtube_embeds(GetBody(item_log[last].data.body)))
       /\ Cardinality(FilesIn(AllPagesDir)) =
            Cardinality({PageTitle(listing[k]) : k \in WrittenPages})
       /\ (\E i, j \in WrittenPages :
             i < j /\ PageTitle(listing[i]) = PageTitle(listing[j]))
            => Cardinality(FilesIn(AllPagesDir)) < Cardinality(WrittenPages)

C10_TwoAssignmentsOneFile ==
  /\ pc = "assignments"
  /\ rec_idx > Len(listing)
  /\ Len(listing) = 2
  /\ listing[1].name = <<"a", "/", "b">>
  /\ listing[2].name = <<"a", ":", "b">>
  /\ Cardinality(FilesIn(AssignmentsDir)) = 1
  /\ fs[<<AssignmentsDir, <<"a", "_", "b", ".", "h", "t", "m", "l">>>>].body = listing[2].description
====
